---------------------------- MODULE Spec2Model ----------------------------
(***************************************************************************)
(* Model of cdp_usa_wa_city_olympia_backend/scraper.py:                    *)
(* get_legistar_content_uris(client, legistar_ev), one invocation from     *)
(* entry to return or raise.                                               *)
(*                                                                         *)
(* Python values.  A str is a sequence of one-character strings, so that   *)
(* str.find, slicing, str.lower, the id regular expression and the         *)
(* f-strings are computed character by character.  An Optional value is    *)
(* None (the empty tuple) or Some(v) (the one-element tuple <<v>>).         *)
(***************************************************************************)
EXTENDS Integers, Sequences, FiniteSets

VARIABLES
    client,          \* argument client
    legistar_ev,     \* argument legistar_ev (the two keys the function reads)
    pc,              \* position in the function body
    soup,            \* BeautifulSoup(resp.read(), "html.parser")
    extract_url,     \* extract_url["onclick"]
    video_page_url,  \* the f-string of line 162
    uris,            \* what parse_video_page_url returned
    result,          \* how the invocation ended: returned tuple or raised exception
    fetches          \* outbound calls made so far, in order

vars == <<client, legistar_ev, pc, soup, extract_url, video_page_url, uris,
          result, fetches>>

---------------------------------------------------------------------------
(* Bounds of the enumerated inputs. *)

\* longest free-form onclick text enumerated over OnclickAlphabet
MaxOnclickLen == 4
\* longest window.open token enumerated over TokenAlphabet
MaxTokenLen == 2
\* most <a> elements on an enumerated detail page
MaxAnchors == 2

---------------------------------------------------------------------------
(* Python built-ins used by the function. *)

None == <<>>
Some(v) == <<v>>

Min(S) == CHOOSE x \in S : \A y \in S : x <= y
Max(S) == CHOOSE x \in S : \A y \in S : x >= y

\* sub occurs in s at 1-based position i
At(s, i, sub) ==
    /\ i >= 1
    /\ i + Len(sub) - 1 <= Len(s)
    /\ SubSeq(s, i, i + Len(sub) - 1) = sub

\* str.find(sub, frm): lowest 0-based index >= frm where sub occurs, else -1
FindFrom(s, sub, frm) ==
    LET hits == {i \in frm..(Len(s) - Len(sub)) : At(s, i + 1, sub)}
    IN  IF hits = {} THEN -1 ELSE Min(hits)

\* str.find(sub)
Find(s, sub) == FindFrom(s, sub, 0)

\* sub in s
Contains(s, sub) == Find(s, sub) # -1

\* s[start:end]: a negative index counts from the end, both are clamped
Slice(s, start, end) ==
    LET n == Len(s)
        norm(x) == IF x < 0 THEN (IF x + n < 0 THEN 0 ELSE x + n)
                   ELSE (IF x > n THEN n ELSE x)
        lo == norm(start)
        hi == norm(end)
    IN  IF lo >= hi THEN <<>> ELSE SubSeq(s, lo + 1, hi)

UpperCase == <<"A","B","C","D","E","F","G","H","I","J","K","L","M","N","O","P","Q","R","S","T","U","V","W","X","Y","Z">>
LowerCase == <<"a","b","c","d","e","f","g","h","i","j","k","l","m","n","o","p","q","r","s","t","u","v","w","x","y","z">>

\* str.lower(), one character
LowerChar(c) ==
    IF \E i \in 1..Len(UpperCase) : UpperCase[i] = c
    THEN LowerCase[CHOOSE i \in 1..Len(UpperCase) : UpperCase[i] = c]
    ELSE c

\* str.lower()
Lower(s) == [i \in 1..Len(s) |-> LowerChar(s[i])]

\* bool(x) of an Optional[str]: None and "" are falsy
Truthy(x) == x # None /\ x[1] # <<>>

\* exception classes and their base classes
Bases(e) ==
    CASE e = "HTTPError" -> {"HTTPError", "URLError", "OSError"}
      [] e = "URLError" -> {"URLError", "OSError"}
      [] e = "ConnectionError" -> {"ConnectionError", "OSError"}
      [] OTHER -> {e}

\* isinstance(e, cls)
IsInstance(e, cls) == cls \in Bases(e)

---------------------------------------------------------------------------
(* cdp_scrapers.scraper_utils.str_simplified: strip, runs of newline       *)
(* characters to one "\n", runs of blanks and tabs to one " ".             *)

Whitespace == {" ", "\t", "\n", "\r", "\f"}
NewlineChars == {"\n", "\r", "\f"}
BlankChars == {" ", "\t"}

\* str.strip()
Strip(s) ==
    LET solid == {i \in 1..Len(s) : s[i] \notin Whitespace}
    IN  IF solid = {} THEN <<>> ELSE SubSeq(s, Min(solid), Max(solid))

\* re.sub("[class]+", rep, s)
Collapse(s, class, rep) ==
    LET idx == [i \in 1..Len(s) |-> i]
        kept == SelectSeq(idx, LAMBDA i : s[i] \notin class \/ i = 1 \/ s[i - 1] \notin class)
    IN  [k \in 1..Len(kept) |-> IF s[kept[k]] \in class THEN rep ELSE s[kept[k]]]

str_simplified(input_str) ==
    Collapse(Collapse(Strip(input_str), NewlineChars, "\n"), BlankChars, " ")

---------------------------------------------------------------------------
(* urllib.parse.urlsplit(url).netloc, and the URLs it rejects. *)

Colon == <<":">>
SlashSlash == <<"/","/">>

\* the part after "scheme:"
AfterScheme(url) ==
    LET i == Find(url, Colon)
    IN  IF i > 0 THEN Slice(url, i + 1, Len(url)) ELSE url

Netloc(url) ==
    LET rest == AfterScheme(url)
        ends == {FindFrom(rest, <<c>>, 2) : c \in {"/", "?", "#"}} \ {-1}
        delim == IF ends = {} THEN Len(rest) ELSE Min(ends)
    IN  IF At(rest, 1, SlashSlash) THEN Slice(rest, 2, delim) ELSE <<>>

\* urlsplit raises ValueError("Invalid IPv6 URL")
UrlsplitRaises(url) ==
    LET netloc == Netloc(url)
        has(c) == \E i \in 1..Len(netloc) : netloc[i] = c
    IN  has("[") # has("]")

\* urlopen builds Request(url), which raises ValueError before any network
\* access for a URL without a scheme and for one urlsplit rejects
UrlopenRejects(url) == Find(url, Colon) <= 0 \/ UrlsplitRaises(url)

---------------------------------------------------------------------------
(* The function's own expressions. *)

\* cdp_scrapers.legistar_utils keys of the event record
LEGISTAR_SESSION_VIDEO_URI == "EventVideoPath"
LEGISTAR_EV_SITE_URL == "EventInSiteURL"

\* ContentUriScrapeResult.Status
Ok == "Ok"
UnrecognizedPatternError == "UnrecognizedPatternError"
ResourceAccessError == "ResourceAccessError"

\* ContentURIs(video_uri=..., caption_uri=...)
ContentURIs(video_uri, caption_uri) ==
    [video_uri |-> video_uri, caption_uri |-> caption_uri]

NoResult == [kind |-> "none", status |-> "", uris |-> None, exc |-> "", msg |-> <<>>]
Returned(status, u) ==
    [kind |-> "return", status |-> status, uris |-> u, exc |-> "", msg |-> <<>>]
Raised(exc, msg) ==
    [kind |-> "raise", status |-> "", uris |-> None, exc |-> exc, msg |-> msg]

\* line 106: if legistar_ev[LEGISTAR_SESSION_VIDEO_URI]
VideoPathPresent(ev) == Truthy(ev[LEGISTAR_SESSION_VIDEO_URI])

\* variant of VideoPathUris: the field passed through without str_simplified
VideoPathUrisRaw(ev) ==
    Some(<<ContentURIs(ev[LEGISTAR_SESSION_VIDEO_URI][1], None)>>)

\* lines 109-114: the one-element list returned with Status.Ok
VideoPathUris(ev) ==
    Some(<<ContentURIs(str_simplified(ev[LEGISTAR_SESSION_VIDEO_URI][1]), None)>>)

\* variant of SiteUrlMissing: tests `is None` instead of falsiness
SiteUrlMissingIsNone(ev) == ev[LEGISTAR_EV_SITE_URL] = None

\* line 116: if not legistar_ev[LEGISTAR_EV_SITE_URL]
SiteUrlMissing(ev) == ~Truthy(ev[LEGISTAR_EV_SITE_URL])

\* variant of UrlopenHandles: except OSError
UrlopenHandlesOSError(e) == IsInstance(e, "OSError")

\* line 137: except (URLError, HTTPError)
UrlopenHandles(e) == IsInstance(e, "URLError") \/ IsInstance(e, "HTTPError")

ServerErrorText == <<"s","e","r","v","e","r"," ","e","r","r","o","r">>

\* variant of HasServerError: the page text compared without .lower()
HasServerErrorCaseSensitive(text) == Contains(text, ServerErrorText)

\* line 127: "server error" in soup.text.lower()
HasServerError(text) == Contains(Lower(text), ServerErrorText)

AppearsDown == <<" ","a","p","p","e","a","r","s"," ","t","o"," ","b","e"," ","d","o","w","n",":"," ">>

\* lines 128-135: the ConnectionError message
DownMessage(url, text) ==
    LET netloc == IF UrlsplitRaises(url) THEN url ELSE Netloc(url)
    IN  netloc \o AppearsDown \o str_simplified(text)

Ct == <<"c","t">>
ContentPlaceHolder == <<"_","C","o","n","t","e","n","t","P","l","a","c","e","H","o","l","d","e","r">>
HypVideo == <<"_","h","y","p","V","i","d","e","o">>

\* no whitespace character in s[from..to]
NonSpace(s, from, to) == \A p \in from..to : s[p] \notin Whitespace

\* line 151: re.compile(r"ct\S*_ContentPlaceHolder\S*_hypVideo"), which
\* BeautifulSoup applies to the attribute value with search()
IdPattern(id) ==
    \E i \in 1..Len(id) :
        /\ At(id, i, Ct)
        /\ \E j \in (i + Len(Ct))..Len(id) :
            /\ At(id, j, ContentPlaceHolder)
            /\ NonSpace(id, i + Len(Ct), j - 1)
            /\ \E k \in (j + Len(ContentPlaceHolder))..Len(id) :
                /\ At(id, k, HypVideo)
                /\ NonSpace(id, j + Len(ContentPlaceHolder), k - 1)

\* variant of AnchorMatches: any <a> with an onclick, whatever its id
AnchorMatchesAnyId(a) == a.onclick # None

\* lines 150-152: the filter id=<pattern>, onclick=True on an <a> element
AnchorMatches(a) == a.id # None /\ IdPattern(a.id[1]) /\ a.onclick # None

\* lines 150-152: soup.find(...), the first matching <a> in document order;
\* 0 stands for None
SoupFindAnchor(anchors) ==
    LET hits == {i \in 1..Len(anchors) : AnchorMatches(anchors[i])}
    IN  IF hits = {} THEN 0 ELSE Min(hits)

Quote == <<"'">>
QuoteComma == <<"'",",">>

\* variant of OnclickToken: start without the + len("'")
OnclickTokenFromQuote(onclick) ==
    Slice(onclick, Find(onclick, Quote), Find(onclick, QuoteComma))

\* lines 160-162: extract_url[start:end]
OnclickToken(onclick) ==
    LET start == Find(onclick, Quote) + Len(Quote)
        end == Find(onclick, QuoteComma)
    IN  Slice(onclick, start, end)

Https == <<"h","t","t","p","s",":","/","/">>
LegistarCom == <<".","l","e","g","i","s","t","a","r",".","c","o","m","/">>

\* line 162: f"https://{client}.legistar.com/{extract_url[start:end]}"
VideoPageUrl(c, onclick) == Https \o c \o LegistarCom \o OnclickToken(onclick)

\* line 167: except HTTPError
DelegateHandles(e) == IsInstance(e, "HTTPError")

\* variant of UrisMissing: tests for the empty list instead of None
UrisMissingIfEmpty(u) == u = Some(<<>>)

\* line 171: if uris is None
UrisMissing(u) == u = None

NeedsAttention ==
    <<"g","e","t","_","l","e","g","i","s","t","a","r","_","c","o","n","t","e","n","t","_","u","r","i","s","(",")"," ","n","e","e","d","s"," ","a","t","t","e","n","t","i","o","n","."," ","U","n","r","e","c","o","g","n","i","z","e","d"," ","v","i","d","e","o"," ","w","e","b"," ","p","a","g","e"," ","H","T","M","L"," ","s","t","r","u","c","t","u","r","e",":"," ">>

\* lines 172-175: the NotImplementedError message
DriftMessage(url) == NeedsAttention \o url

---------------------------------------------------------------------------
(* Inputs: the arguments of a call, and what the network answers. *)

\* all str of length 0..n over alphabet
StrUpTo(alphabet, n) == UNION {[1..k -> alphabet] : k \in 0..n}

Clients == {<<"o","l","y","m","p","i","a">>, <<"s","e","a","t","t","l","e">>}

\* legistar_ev["EventVideoPath"]: None, "", " \t", "v.mp4", " v\t a.mp4\n"
VideoPaths ==
    {None, Some(<<>>), Some(<<" ","\t">>), Some(<<"v",".","m","p","4">>), Some(<<" ","v","\t"," "," ","a",".","m","p","4","\n">>)}

MeetingDetailUrl == <<"h","t","t","p","s",":","/","/","o","l","y","m","p","i","a",".","l","e","g","i","s","t","a","r",".","c","o","m","/","M","e","e","t","i","n","g","D","e","t","a","i","l",".","a","s","p","x","?","I","D","=","1">>
BareHostUrl == <<"h","t","t","p",":","/","/","h">>
BadBracketUrl == <<"h","t","t","p",":","/","/","[","h","/","m">>

\* legistar_ev["EventInSiteURL"]
SiteUrls ==
    {None, Some(<<>>), Some(MeetingDetailUrl), Some(BareHostUrl), Some(BadBracketUrl)}

\* soup.text of pages of a site that is up
TextsUp == {<<"M","e","e","t","i","n","g"," ","D","e","t","a","i","l","s">>, <<"s","e","r","v","e","r"," "," ","e","r","r","o","r">>, <<"S","e","r","v","e","r","\n","E","r","r","o","r">>}

\* soup.text of pages that report a server error
TextsDown ==
    {<<"S","e","r","v","e","r"," ","E","r","r","o","r"," ","i","n"," ","'","/","'"," ","A","p","p","l","i","c","a","t","i","o","n",".">>,
     <<" ","R","u","n","t","i","m","e","\n","\n"," ","s","E","r","V","e","R"," ","e","R","r","O","r">>,
     <<"x"," ","S","E","R","V","E","R"," ","E","R","R","O","R"," ","\t"," ","y">>}

Texts == TextsUp \cup TextsDown

HypVideoId == <<"c","t","l","0","0","_","C","o","n","t","e","n","t","P","l","a","c","e","H","o","l","d","e","r","1","_","h","y","p","V","i","d","e","o">>

\* the id attribute of an <a>: absent, three the pattern finds, three it does not
Ids ==
    {None,
     Some(HypVideoId),
     Some(<<"c","t","_","C","o","n","t","e","n","t","P","l","a","c","e","H","o","l","d","e","r","_","h","y","p","V","i","d","e","o">>),
     Some(<<"x","c","t","l","0","0","_","C","o","n","t","e","n","t","P","l","a","c","e","H","o","l","d","e","r","1","_","h","y","p","V","i","d","e","o","2">>),
     Some(<<"c","t"," ","l","0","0","_","C","o","n","t","e","n","t","P","l","a","c","e","H","o","l","d","e","r","1","_","h","y","p","V","i","d","e","o">>),
     Some(<<"c","t","l","0","0","_","C","o","n","t","e","n","t","P","l","a","c","e","H","o","l","d","e","r","1"," ","_","h","y","p","V","i","d","e","o">>),
     Some(<<"c","t","l","0","0","_","C","o","n","t","e","n","t","P","l","a","c","e","H","o","l","d","e","r","1","_","h","y","p","A","g","e","n","d","a">>)}

WindowOpenHead == <<"w","i","n","d","o","w",".","o","p","e","n","(","'">>
WindowOpenTail == <<"'",",","'","v","i","d","e","o","'",")",";","r","e","t","u","r","n"," ","f","a","l","s","e",";">>

\* onclick="window.open('<token>','video');return false;"
WindowOpen(token) == WindowOpenHead \o token \o WindowOpenTail

SampleToken == <<"V","i","d","e","o",".","a","s","p","x","?","I","D","1","=","8","8","4","4">>

TokenAlphabet == {"V", ",", "?"}
Tokens == StrUpTo(TokenAlphabet, MaxTokenLen) \cup {SampleToken}

OnclickAlphabet == {"'", ",", "a"}
Onclicks == StrUpTo(OnclickAlphabet, MaxOnclickLen) \cup {WindowOpen(t) : t \in Tokens}

\* <a> elements as the parser sees them: id and onclick attributes
SampleAnchors == [id : Ids, onclick : {None, Some(WindowOpen(SampleToken))}]
AnchorLists == UNION {[1..k -> SampleAnchors] : k \in 0..MaxAnchors}

\* detail pages: every text with every short list of anchors, and a page of
\* a site that is up whose hypVideo anchor carries each enumerated onclick
Pages ==
    [text : Texts, anchors : AnchorLists]
    \cup {[text |-> <<"M","e","e","t","i","n","g"," ","D","e","t","a","i","l","s">>,
           anchors |-> <<[id |-> Some(HypVideoId), onclick |-> Some(o)]>>] : o \in Onclicks}

\* urlopen fails at the transport layer: host unreachable, bad response code
TransportErrors == {"URLError", "HTTPError"}

\* what parse_video_page_url may return: Optional[List[ContentURIs]]
DelegateResults ==
    {None,
     Some(<<>>),
     Some(<<ContentURIs(<<"v",".","m","p","4">>, None)>>),
     Some(<<ContentURIs(<<"v",".","m","p","4">>, Some(<<"c",".","v","t","t">>)), ContentURIs(<<"w",".","m","p","4">>, None)>>)}

---------------------------------------------------------------------------
(* The state machine. *)

NoSoup == [text |-> <<>>, anchors |-> <<>>]

Init ==
    /\ client \in Clients
    /\ legistar_ev \in [EventVideoPath : VideoPaths, EventInSiteURL : SiteUrls]
    /\ pc = "start"
    /\ soup = NoSoup
    /\ extract_url = <<>>
    /\ video_page_url = <<>>
    /\ uris = None
    /\ result = NoResult
    /\ fetches = <<>>

SiteUrl == legistar_ev[LEGISTAR_EV_SITE_URL][1]

Fetch(fn, url, outcome) == [fn |-> fn, url |-> url, outcome |-> outcome]

\* lines 106-115: the event carries the video file path
ReturnVideoPath ==
    /\ pc = "start"
    /\ VideoPathPresent(legistar_ev)
    /\ result' = Returned(Ok, VideoPathUris(legistar_ev))
    /\ pc' = "done"
    /\ UNCHANGED <<client, legistar_ev, soup, extract_url, video_page_url, uris, fetches>>

\* lines 116-117: nothing to fetch
ReturnNoSiteUrl ==
    /\ pc = "start"
    /\ ~VideoPathPresent(legistar_ev)
    /\ SiteUrlMissing(legistar_ev)
    /\ result' = Returned(UnrecognizedPatternError, None)
    /\ pc' = "done"
    /\ UNCHANGED <<client, legistar_ev, soup, extract_url, video_page_url, uris, fetches>>

\* lines 119-125 and 137-139: urlopen of the detail page, and the handler
Urlopen ==
    /\ pc = "start"
    /\ ~VideoPathPresent(legistar_ev)
    /\ ~SiteUrlMissing(legistar_ev)
    /\ \/ /\ UrlopenRejects(SiteUrl)
          /\ result' = IF UrlopenHandles("ValueError")
                       THEN Returned(ResourceAccessError, None)
                       ELSE Raised("ValueError", <<>>)
          /\ pc' = "done"
          /\ UNCHANGED <<soup, fetches>>
       \/ /\ ~UrlopenRejects(SiteUrl)
          /\ \E e \in TransportErrors :
                /\ fetches' = Append(fetches, Fetch("urlopen", SiteUrl, e))
                /\ result' = IF UrlopenHandles(e)
                             THEN Returned(ResourceAccessError, None)
                             ELSE Raised(e, <<>>)
          /\ pc' = "done"
          /\ UNCHANGED soup
       \/ /\ ~UrlopenRejects(SiteUrl)
          /\ \E page \in Pages : soup' = page
          /\ fetches' = Append(fetches, Fetch("urlopen", SiteUrl, "ok"))
          /\ pc' = "resp"
          /\ UNCHANGED result
    /\ UNCHANGED <<client, legistar_ev, extract_url, video_page_url, uris>>

\* lines 127-139: the "server error" test inside the try block
CheckServerError ==
    /\ pc = "resp"
    /\ IF HasServerError(soup.text)
       THEN /\ result' = IF UrlopenHandles("ConnectionError")
                         THEN Returned(ResourceAccessError, None)
                         ELSE Raised("ConnectionError", DownMessage(SiteUrl, soup.text))
            /\ pc' = "done"
       ELSE /\ pc' = "find"
            /\ UNCHANGED result
    /\ UNCHANGED <<client, legistar_ev, soup, extract_url, video_page_url, uris, fetches>>

\* lines 150-159: look for the hypVideo anchor and take its onclick
SoupFind ==
    /\ pc = "find"
    /\ LET i == SoupFindAnchor(soup.anchors)
       IN  IF i = 0
           THEN /\ result' = Returned(UnrecognizedPatternError, None)
                /\ pc' = "done"
                /\ UNCHANGED extract_url
           ELSE /\ extract_url' = soup.anchors[i].onclick[1]
                /\ pc' = "extract"
                /\ UNCHANGED result
    /\ UNCHANGED <<client, legistar_ev, soup, video_page_url, uris, fetches>>

\* lines 160-164: build the secondary URL
ExtractUrl ==
    /\ pc = "extract"
    /\ video_page_url' = VideoPageUrl(client, extract_url)
    /\ pc' = "delegate"
    /\ UNCHANGED <<client, legistar_ev, soup, extract_url, uris, result, fetches>>

\* lines 165-176: the delegate call, its handler and the None test
ParseVideoPageUrl ==
    /\ pc = "delegate"
    /\ \/ \E e \in TransportErrors :
            /\ fetches' = Append(fetches, Fetch("parse_video_page_url", video_page_url, e))
            /\ result' = IF DelegateHandles(e)
                         THEN Returned(ResourceAccessError, None)
                         ELSE Raised(e, <<>>)
            /\ UNCHANGED uris
       \/ \E u \in DelegateResults :
            /\ fetches' = Append(fetches, Fetch("parse_video_page_url", video_page_url, "ok"))
            /\ uris' = u
            /\ result' = IF UrisMissing(u)
                         THEN Raised("NotImplementedError", DriftMessage(video_page_url))
                         ELSE Returned(Ok, u)
    /\ pc' = "done"
    /\ UNCHANGED <<client, legistar_ev, soup, extract_url, video_page_url>>

Next ==
    \/ ReturnVideoPath
    \/ ReturnNoSiteUrl
    \/ Urlopen
    \/ CheckServerError
    \/ SoupFind
    \/ ExtractUrl
    \/ ParseVideoPageUrl

Spec == Init /\ [][Next]_vars

---------------------------------------------------------------------------
(* Vocabulary of the properties, stated apart from the definitions above. *)

VideoField == legistar_ev["EventVideoPath"]
UrlField == legistar_ev["EventInSiteURL"]

\* an Optional[str] field that is None or ""
Empty(x) == x = None \/ x = Some(<<>>)

Finished == pc = "done"

\* the detail page was fetched and read
DetailFetched == Len(fetches) >= 1 /\ fetches[1].outcome = "ok"

\* the delegate was called
DelegateCalled == \E i \in 1..Len(fetches) : fetches[i].fn = "parse_video_page_url"

\* text contains "server error" in any letter case at some position
MentionsServerError(text) ==
    \E i \in 1..Len(text) :
        /\ i + Len(ServerErrorText) - 1 <= Len(text)
        /\ \A k \in 1..Len(ServerErrorText) : LowerChar(text[i + k - 1]) = ServerErrorText[k]

\* id contains ct<anything>_ContentPlaceHolder<anything>_hypVideo
LooseIdPattern(id) ==
    \E i \in 1..Len(id) :
        /\ At(id, i, Ct)
        /\ \E j \in 1..Len(id) :
            /\ j >= i + Len(Ct)
            /\ At(id, j, ContentPlaceHolder)
            /\ \E k \in 1..Len(id) :
                /\ k >= j + Len(ContentPlaceHolder)
                /\ At(id, k, HypVideo)

\* the page has an <a> with such an id and an onclick attribute
HasVideoAnchor(page) ==
    \E i \in 1..Len(page.anchors) :
        /\ page.anchors[i].id # None
        /\ LooseIdPattern(page.anchors[i].id[1])
        /\ page.anchors[i].onclick # None

\* the host part of the enumerated detail-page URLs
HostPart(url) ==
    CASE url = MeetingDetailUrl -> <<"o","l","y","m","p","i","a",".","l","e","g","i","s","t","a","r",".","c","o","m">>
      [] url = BareHostUrl -> <<"h">>
      [] OTHER -> <<>>

\* https://<c>.legistar.com/<token>
SecondaryUrl(c, token) == <<"h","t","t","p","s",":","/","/">> \o c \o <<".","l","e","g","i","s","t","a","r",".","c","o","m","/">> \o token

HasQuote(s) == \E i \in 1..Len(s) : s[i] = "'"

\* onclick is window.open('t','video');return false; for a quote-free t
IsWindowOpen(onclick) ==
    /\ Len(onclick) >= Len(WindowOpenHead) + Len(WindowOpenTail)
    /\ At(onclick, 1, WindowOpenHead)
    /\ At(onclick, Len(onclick) - Len(WindowOpenTail) + 1, WindowOpenTail)
    /\ ~HasQuote(SubSeq(onclick, Len(WindowOpenHead) + 1, Len(onclick) - Len(WindowOpenTail)))

\* that t
WindowOpenToken(onclick) ==
    SubSeq(onclick, Len(WindowOpenHead) + 1, Len(onclick) - Len(WindowOpenTail))

\* the characters between the first single quote of s and the following ',
\* delimiter; nothing lies between when either is missing
BetweenQuoteAndDelimiter(s) ==
    LET quotes == {i \in 1..Len(s) : s[i] = "'"}
        first == Min(quotes)
        delims == {j \in 1..Len(s) : j > first /\ At(s, j, QuoteComma)}
    IN  IF quotes = {} THEN <<>>
        ELSE IF delims = {} THEN <<>>
        ELSE SubSeq(s, first + 1, Min(delims) - 1)

---------------------------------------------------------------------------
(* C1.  When the direct-video field is non-empty, whatever the detail-page *)
(* URL field holds, no fetch is ever made and the call returns Ok with     *)
(* exactly one URI pair: the whitespace-normalized field as video URI and  *)
(* a null caption URI.                                                     *)
C1_DirectVideoReturnsOkWithoutFetch ==
    (VideoField # None /\ VideoField[1] # <<>>) =>
        /\ fetches = <<>>
        /\ pc \in {"start", "done"}
        /\ Finished =>
            /\ result.kind = "return"
            /\ result.status = "Ok"
            /\ result.uris # None
            /\ Len(result.uris[1]) = 1
            /\ result.uris[1][1].video_uri = str_simplified(VideoField[1])
            /\ result.uris[1][1].caption_uri = None

\* a finished call whose video field " v\t  a.mp4\n" came back normalized,
\* with a detail-page URL present and untouched
C1_Witness ==
    /\ Finished
    /\ VideoField = Some(<<" ","v","\t"," "," ","a",".","m","p","4","\n">>)
    /\ UrlField = Some(MeetingDetailUrl)
    /\ result.status = "Ok"
    /\ result.uris = Some(<<[video_uri |-> <<"v"," ","a",".","m","p","4">>, caption_uri |-> None]>>)
    /\ fetches = <<>>

(* C2.  A transport failure (URLError: host unreachable, HTTPError: bad    *)
(* response code) of the detail-page fetch or of the delegate call ends    *)
(* the call with the returned status ResourceAccessError and no URIs,      *)
(* whichever fetch failed and whichever failure it was.                    *)
C2_TransportFailureReturnsResourceAccessError ==
    (Finished /\ \E i \in 1..Len(fetches) : fetches[i].outcome \in {"URLError", "HTTPError"}) =>
        /\ result.kind = "return"
        /\ result.status = "ResourceAccessError"
        /\ result.uris = None

(* C3.  After the detail page was fetched and the anchor found, a delegate *)
(* result that is null or empty makes the call raise NotImplementedError   *)
(* with the secondary URL in its message; no status result is returned.    *)
C3_EmptyOrNullDelegateResultRaises ==
    (/\ Finished
     /\ Len(fetches) = 2
     /\ fetches[2].outcome = "ok"
     /\ (uris = None \/ uris = Some(<<>>))) =>
        /\ result.kind = "raise"
        /\ result.exc = "NotImplementedError"
        /\ \E i \in 1..Len(result.msg) : At(result.msg, i, fetches[2].url)

(* C4.  When the direct-video field is empty, the detail page was fetched  *)
(* and its text contains "server error" in any letter case, the call       *)
(* raises ConnectionError carrying the URL's host part and the normalized  *)
(* page text, returns no status, and never calls the delegate, also when   *)
(* the page has a matching hypVideo anchor.                                *)
C4_ServerErrorRaisesConnectionError ==
    (/\ Empty(VideoField)
     /\ DetailFetched
     /\ pc # "resp"
     /\ MentionsServerError(soup.text)) =>
        /\ Finished
        /\ result.kind = "raise"
        /\ result.exc = "ConnectionError"
        /\ result.msg = HostPart(UrlField[1]) \o <<" ","a","p","p","e","a","r","s"," ","t","o"," ","b","e"," ","d","o","w","n",":"," ">> \o str_simplified(soup.text)
        /\ HostPart(UrlField[1]) # <<>>
        /\ ~DelegateCalled
        /\ Len(fetches) = 1

\* the upper-case "SERVER ERROR" in mid-text on a page that also has a
\* matching hypVideo anchor: ConnectionError, one fetch only
C4_Witness ==
    /\ Finished
    /\ soup.text = <<"x"," ","S","E","R","V","E","R"," ","E","R","R","O","R"," ","\t"," ","y">>
    /\ HasVideoAnchor(soup)
    /\ result.exc = "ConnectionError"
    /\ result.msg = <<"o","l","y","m","p","i","a",".","l","e","g","i","s","t","a","r",".","c","o","m"," ","a","p","p","e","a","r","s"," ","t","o"," ","b","e"," ","d","o","w","n",":"," ","x"," ","S","E","R","V","E","R"," ","E","R","R","O","R"," ","y">>
    /\ Len(fetches) = 1

(* C5.  When the direct-video field and the detail-page URL field are both *)
(* empty, the call returns UnrecognizedPatternError with no URIs and makes *)
(* no fetch.                                                               *)
C5_BothEmptyReturnsUnrecognizedWithoutFetch ==
    (Empty(VideoField) /\ Empty(UrlField)) =>
        /\ fetches = <<>>
        /\ pc \in {"start", "done"}
        /\ Finished =>
            /\ result.kind = "return"
            /\ result.status = "UnrecognizedPatternError"
            /\ result.uris = None

\* a finished call with video field None and URL field ""
C5_Witness ==
    /\ Finished
    /\ VideoField = None
    /\ UrlField = Some(<<>>)
    /\ result.status = "UnrecognizedPatternError"
    /\ fetches = <<>>

(* C6.  When the detail page was fetched, its text has no "server error"   *)
(* and it has no <a> with both an id containing                            *)
(* ct<anything>_ContentPlaceHolder<anything>_hypVideo and an onclick, the  *)
(* call returns UnrecognizedPatternError with no URIs, raises nothing and  *)
(* does not call the delegate.                                             *)
C6_NoAnchorReturnsUnrecognized ==
    (/\ DetailFetched
     /\ pc \notin {"resp", "find"}
     /\ ~MentionsServerError(soup.text)
     /\ ~HasVideoAnchor(soup)) =>
        /\ Finished
        /\ result.kind = "return"
        /\ result.status = "UnrecognizedPatternError"
        /\ result.uris = None
        /\ ~DelegateCalled

\* a fetched page with two near misses: the hypVideo id without onclick,
\* and an onclick on an <a> with another id
C6_Witness ==
    /\ Finished
    /\ DetailFetched
    /\ Len(soup.anchors) = 2
    /\ soup.anchors[1] = [id |-> Some(HypVideoId), onclick |-> None]
    /\ soup.anchors[2].id = Some(<<"c","t","l","0","0","_","C","o","n","t","e","n","t","P","l","a","c","e","H","o","l","d","e","r","1","_","h","y","p","A","g","e","n","d","a">>)
    /\ soup.anchors[2].onclick # None
    /\ result.status = "UnrecognizedPatternError"

(* C7.  For every client c and every token t without a single quote, the  *)
(* onclick window.open('t','video');return false; of the matching anchor   *)
(* gives the secondary URL https://c.legistar.com/t, the URL handed to     *)
(* the delegate.                                                           *)
C7_WindowOpenTokenGivesSecondaryUrl ==
    (pc \in {"delegate", "done"} /\ extract_url # <<>> /\ IsWindowOpen(extract_url)) =>
        /\ video_page_url = SecondaryUrl(client, WindowOpenToken(extract_url))
        /\ DelegateCalled => fetches[2].url = SecondaryUrl(client, WindowOpenToken(extract_url))

(* C8.  For every onclick text of the matching anchor, the token placed in *)
(* the secondary URL is exactly the characters between the first single    *)
(* quote and the following ', delimiter.                                   *)
C8_TokenIsTextBetweenQuoteAndDelimiter ==
    pc = "delegate" =>
        video_page_url = SecondaryUrl(client, BetweenQuoteAndDelimiter(extract_url))

(* C9.  A call makes at most two fetches, in this order: the detail-page   *)
(* fetch, only when the direct-video field is empty and the detail-page    *)
(* URL is not; then the delegate call, only after the detail-page fetch    *)
(* succeeded, the page showed no "server error" and a matching anchor was  *)
(* found.  Nothing is fetched after a failed detail-page fetch.            *)
C9_AtMostTwoFetchesInOrder ==
    /\ Len(fetches) <= 2
    /\ Len(fetches) >= 1 =>
        /\ fetches[1].fn = "urlopen"
        /\ Empty(VideoField)
        /\ ~Empty(UrlField)
        /\ fetches[1].url = UrlField[1]
    /\ Len(fetches) = 2 =>
        /\ fetches[2].fn = "parse_video_page_url"
        /\ fetches[1].outcome = "ok"
        /\ ~MentionsServerError(soup.text)
        /\ HasVideoAnchor(soup)
    /\ (Len(fetches) >= 1 /\ fetches[1].outcome # "ok") => (Len(fetches) = 1 /\ Finished)

\* both fetches made, the second one failing
C9_Witness ==
    /\ Finished
    /\ Len(fetches) = 2
    /\ fetches[1] = [fn |-> "urlopen", url |-> BareHostUrl, outcome |-> "ok"]
    /\ fetches[2].fn = "parse_video_page_url"
    /\ fetches[2].outcome = "HTTPError"

(* C10.  Every returned result is well formed: Ok comes with a non-null    *)
(* URI list, UnrecognizedPatternError and ResourceAccessError come with a  *)
(* null payload, and no other status is returned.                          *)
C10_ReturnedResultWellFormed ==
    (Finished /\ result.kind = "return") =>
        \/ result.status = "Ok" /\ result.uris # None
        \/ result.status \in {"UnrecognizedPatternError", "ResourceAccessError"} /\ result.uris = None

\* Ok with the two URI pairs the delegate produced
C10_Witness ==
    /\ Finished
    /\ result.kind = "return"
    /\ result.status = "Ok"
    /\ result.uris # None
    /\ Len(result.uris[1]) = 2
    /\ DelegateCalled

====
